---- MODULE Spec2Model ----
(***************************************************************************)
(* Inventory-and-cash ledger of system.accountant1.                        *)
(*                                                                         *)
(* The repository holds two Flask programs over one SQLite file:           *)
(*   app.py                table "entries", routes / /buy /sell /balance   *)
(*                         /history/                                       *)
(*   system_accountant.py  table "events",  routes / /add /history/        *)
(*                         /buy /sell /cash                                *)
(* Each program only ever touches its own table, so a behaviour of the     *)
(* model follows one program (variable entry) and its table.               *)
(*                                                                         *)
(* Text is a sequence of one-character strings, so that str.strip(),       *)
(* float() and int() are computed rather than assumed.  A REAL amount is   *)
(* an integer number of thousandths (Mills per 1.0).  Every amount the     *)
(* model feeds in is a multiple of 1/8, hence exact in binary floating     *)
(* point, so sums, products and round(x, 2) are exact here as in Python.   *)
(* None / SQL NULL is the empty tuple and a present value v is <<v>>.      *)
(***************************************************************************)
EXTENDS Integers, Sequences, FiniteSets, TLC

VARIABLES entry, table, seq, req, resp, now, proc, lock

vars == <<entry, table, seq, req, resp, now, proc, lock>>

\* ------------------------------------------------------------------ bounds
MaxEvents == 2      \* rows a table may hold before submissions stop
MaxLine   == 2      \* largest id a history URL names
MaxTick   == 1      \* seconds the wall clock may run to
MaxLegacy == 2      \* rows of a table that was filled by other means
NProcs    == 2      \* requests that are handled at the same time

\* ------------------------------------------------------- values and text
NULL == <<>>

Some(v) == <<v>>

\* A numeric column that holds TEXT: SQLite keeps text it cannot convert to
\* the column's affinity as it is.
Text(s) == <<"TEXT", s>>

is_text(x) == Len(x) = 2

Mills == 1000

Digits == {"0", "1", "2", "3", "4", "5", "6", "7", "8", "9"}

DigitVal(c) ==
    CASE c = "0" -> 0 [] c = "1" -> 1 [] c = "2" -> 2 [] c = "3" -> 3
      [] c = "4" -> 4 [] c = "5" -> 5 [] c = "6" -> 6 [] c = "7" -> 7
      [] c = "8" -> 8 [] c = "9" -> 9

RECURSIVE lstrip(_)
lstrip(s) == IF s # <<>> /\ Head(s) = " " THEN lstrip(Tail(s)) ELSE s

RECURSIVE rstrip(_)
rstrip(s) ==
    IF s # <<>> /\ s[Len(s)] = " " THEN rstrip(SubSeq(s, 1, Len(s) - 1)) ELSE s

\* str.strip()
strip(s) == rstrip(lstrip(s))

AllDigits(s) == \A i \in 1..Len(s) : s[i] \in Digits

RECURSIVE DigitsVal(_)
DigitsVal(s) ==
    IF s = <<>> THEN 0
    ELSE 10 * DigitsVal(SubSeq(s, 1, Len(s) - 1)) + DigitVal(s[Len(s)])

Unsigned(s) == IF s # <<>> /\ Head(s) \in {"-", "+"} THEN Tail(s) ELSE s

Sign(s) == IF s # <<>> /\ Head(s) = "-" THEN -1 ELSE 1

\* int(str): NULL stands for ValueError, <<n>> for the parsed integer.
py_int(str) ==
    LET s == strip(str)
        u == Unsigned(s)
    IN  IF u # <<>> /\ AllDigits(u) THEN Some(Sign(s) * DigitsVal(u)) ELSE NULL

\* float(str) for plain decimal text of at most three decimals:
\* NULL stands for ValueError, <<m>> for the parsed amount in thousandths.
py_float(str) ==
    LET s    == strip(str)
        u    == Unsigned(s)
        dots == {i \in 1..Len(u) : u[i] = "."}
        dot  == IF dots = {} THEN Len(u) + 1 ELSE CHOOSE i \in dots : TRUE
        ip   == SubSeq(u, 1, dot - 1)
        fp   == SubSeq(u, dot + 1, Len(u))
        frac == CASE Len(fp) = 0 -> 0
                  [] Len(fp) = 1 -> 100 * DigitsVal(fp)
                  [] Len(fp) = 2 -> 10 * DigitsVal(fp)
                  [] Len(fp) = 3 -> DigitsVal(fp)
    IN  IF /\ Cardinality(dots) <= 1
           /\ AllDigits(ip) /\ AllDigits(fp)
           /\ Len(ip) + Len(fp) > 0
        THEN Some(Sign(s) * (Mills * DigitsVal(ip) + frac))
        ELSE NULL

\* round(x, 2): nearest hundredth, a tie going to the even hundredth.
round2(x) ==
    LET c == x \div 10
        r == x % 10
    IN  CASE r < 5 -> 10 * c
          [] r > 5 -> 10 * (c + 1)
          [] r = 5 -> IF c % 2 = 0 THEN 10 * c ELSE 10 * (c + 1)

\* Python's  x or d  on a nullable number: None, 0 and '' are falsy.
or_zero(x) == IF x = NULL \/ x = Some(0) \/ x = Text(<<>>) THEN 0 ELSE x[1]

\* A non-empty TEXT cell is truthy and no number: stock.get(..) + qty and
\* cash -= price * qty raise TypeError in app.py, int(..) and float(..)
\* raise ValueError in system_accountant.py and, for value, in app.py.
not_a_number(x) == is_text(x) /\ x[2] # <<>>

\* Python's  s or d  on form text: the empty string is falsy.
or_text(s, d) == IF s = <<>> THEN d ELSE s

\* ------------------------------------------------------------ the table
\* One row of entries / events.  The CHECK constraint on kind is met by
\* every INSERT of both programs.  ts is a count of seconds.
Row(id, ts, kind, product, unit_price, qty, comment, value) ==
    [id |-> id, ts |-> ts, kind |-> kind, product |-> product,
     unit_price |-> unit_price, qty |-> qty, comment |-> comment, value |-> value]

\* Mutant of next_id: the id counter is read but never advanced.
next_id_stuck(sq) == sq

\* id INTEGER PRIMARY KEY AUTOINCREMENT: the new id is one more than the
\* largest id the table has ever handed out (sqlite_sequence).
next_id(sq) == sq + 1

\* Mutant of insert: the write replaces the newest row instead of adding one.
insert_over_newest(tbl, sq, kind, product, unit_price, qty, comment, value) ==
    {r \in tbl : r.id # sq}
        \cup {Row(next_id(sq), now, kind, product, unit_price, qty, comment, value)}

\* INSERT INTO ... (kind, product, unit_price, qty) / (kind, comment, value)
\* ts is the wall clock, in seconds: DEFAULT (datetime('now')) in app.py,
\* datetime.utcnow().isoformat(timespec="seconds") in system_accountant.py.
insert(tbl, sq, kind, product, unit_price, qty, comment, value) ==
    tbl \cup {Row(next_id(sq), now, kind, product, unit_price, qty, comment, value)}

Ids(rows) == {r.id : r \in rows}

\* Mutant of order_by_id_asc: GROUP BY ts, one row for each timestamp.
RECURSIVE order_by_id_asc_per_ts(_)
order_by_id_asc_per_ts(rows) ==
    IF rows = {} THEN <<>>
    ELSE LET r == CHOOSE x \in rows : \A y \in rows : x.id <= y.id
         IN  <<r>> \o order_by_id_asc_per_ts({y \in rows : y.ts # r.ts})

RECURSIVE order_by_id_asc(_)
order_by_id_asc(rows) ==
    IF rows = {} THEN <<>>
    ELSE LET r == CHOOSE x \in rows : \A y \in rows : x.id <= y.id
         IN  <<r>> \o order_by_id_asc(rows \ {r})

RECURSIVE order_by_id_desc(_)
order_by_id_desc(rows) ==
    IF rows = {} THEN <<>>
    ELSE LET r == CHOOSE x \in rows : \A y \in rows : x.id >= y.id
         IN  <<r>> \o order_by_id_desc(rows \ {r})

\* WHERE id BETWEEN lo AND hi
between(tbl, lo, hi) == {r \in tbl : lo <= r.id /\ r.id <= hi}

\* --------------------------------------------------------- the projector
\* dict.get(k, 0)
dict_get(d, k) == IF k \in DOMAIN d THEN d[k] ELSE 0

\* d[k] = v
dict_set(d, k, v) == [x \in DOMAIN d \cup {k} |-> IF x = k THEN v ELSE d[x]]

\* Mutant of drop_zero: the zero entries are left in.
drop_zero_kept(d) == d

\* {k: v for k, v in stock.items() if v != 0}
drop_zero(d) == [k \in {x \in DOMAIN d : d[x] # 0} |-> d[k]]

\* The loop body raises on this row.
calc_raises(r) ==
    CASE r.kind \in {"buy", "sell"} ->
             not_a_number(r.qty) \/ not_a_number(r.unit_price)
      [] r.kind = "balance" -> not_a_number(r.value)
      [] OTHER -> FALSE

\* Mutant of calc_step: a Buy adds its amount to the cash as a Sell does.
calc_step_buy_earns(acc, r) ==
    LET name  == r.product[1]
        qty   == or_zero(r.qty)
        price == or_zero(r.unit_price)
    IN  IF acc.raised \/ calc_raises(r) THEN [acc EXCEPT !.raised = TRUE]
        ELSE CASE r.kind = "buy" ->
               [stock  |-> dict_set(acc.stock, name, dict_get(acc.stock, name) + qty),
                cash   |-> acc.cash + price * qty,
                raised |-> FALSE]
          [] r.kind = "sell" ->
               [stock  |-> dict_set(acc.stock, name, dict_get(acc.stock, name) - qty),
                cash   |-> acc.cash + price * qty,
                raised |-> FALSE]
          [] r.kind = "balance" ->
               [stock  |-> acc.stock,
                cash   |-> acc.cash + or_zero(r.value),
                raised |-> FALSE]
          [] OTHER -> acc

\* One iteration of the loop of calc_state (the same in both programs); an
\* exception ends the loop and leaves calc_state.
calc_step(acc, r) ==
    LET name  == r.product[1]
        qty   == or_zero(r.qty)
        price == or_zero(r.unit_price)
    IN  IF acc.raised \/ calc_raises(r) THEN [acc EXCEPT !.raised = TRUE]
        ELSE CASE r.kind = "buy" ->
               [stock  |-> dict_set(acc.stock, name, dict_get(acc.stock, name) + qty),
                cash   |-> acc.cash - price * qty,
                raised |-> FALSE]
          [] r.kind = "sell" ->
               [stock  |-> dict_set(acc.stock, name, dict_get(acc.stock, name) - qty),
                cash   |-> acc.cash + price * qty,
                raised |-> FALSE]
          [] r.kind = "balance" ->
               [stock  |-> acc.stock,
                cash   |-> acc.cash + or_zero(r.value),
                raised |-> FALSE]
          [] OTHER -> acc

RECURSIVE calc_fold(_, _)
calc_fold(acc, rows) ==
    IF rows = <<>> THEN acc ELSE calc_fold(calc_step(acc, Head(rows)), Tail(rows))

\* app.py: the cash is returned rounded to two decimals.
app_calc_state(tbl) ==
    LET s == calc_fold([stock |-> <<>>, cash |-> 0, raised |-> FALSE],
                       order_by_id_asc(tbl))
    IN  [stock |-> drop_zero(s.stock), cash |-> round2(s.cash), raised |-> s.raised]

\* system_accountant.py: the cash is returned unrounded.
sa_calc_state(tbl) ==
    LET s == calc_fold([stock |-> <<>>, cash |-> 0, raised |-> FALSE],
                       order_by_id_asc(tbl))
    IN  [stock |-> drop_zero(s.stock), cash |-> s.cash, raised |-> s.raised]

\* ------------------------------------------------ requests and responses
\* What a handler hands back: flash() calls, then redirect(url_for("index"))
\* (302), render_template (200) or an exception leaving the view (500).
Redirect(flash) ==
    [status |-> 302, flash |-> flash, rows |-> <<>>, scope |-> NULL,
     stock |-> <<>>, cash |-> 0]

ServerError ==
    [status |-> 500, flash |-> NULL, rows |-> <<>>, scope |-> NULL,
     stock |-> <<>>, cash |-> 0]

\* render_template with the state calc_state returned; an exception of
\* calc_state leaves the view.
Page(rows, scope, state) ==
    IF state.raised THEN ServerError
    ELSE [status |-> 200, flash |-> NULL, rows |-> rows, scope |-> scope,
          stock |-> state.stock, cash |-> state.cash]

Flash(message, category) == Some([category |-> category, message |-> message])

\* A handler's effect: the table and sqlite_sequence it leaves, and its answer.
Outcome(tbl, sq, answer) == [table |-> tbl, seq |-> sq, resp |-> answer]

Form(form_name, name, price, qty, comment, value) ==
    [form_name |-> form_name, name |-> name, price |-> price, qty |-> qty,
     comment |-> comment, value |-> value]

NoForm == Form("", <<>>, <<>>, <<>>, <<>>, <<>>)

Request(route, form, line_from, line_to) ==
    [route |-> route, form |-> form, line_from |-> line_from, line_to |-> line_to]

\* ----------------------------------------------------------------- app.py
SavedMessage(kind) ==
    CASE kind = "buy"     -> "Zakup zapisany."
      [] kind = "sell"    -> "Sprzedaz zapisana."
      [] kind = "balance" -> "Zmiana salda zapisana."

\* Mutant of app_buy_sell: a Sell of more than the stock holds is rejected.
app_buy_sell_stock_checked(kind, tbl, sq, form) ==
    LET product    == strip(or_text(form.name, <<>>))
        unit_price == form.price
        qty        == form.qty
        price      == py_float(unit_price)
        q          == py_int(qty)
    IN  IF product = <<>> \/ unit_price = <<>> \/ qty = <<>>
        THEN Outcome(tbl, sq,
                 Redirect(Flash("Uzupelnij: nazwa, cena, liczba sztuk.", "error")))
        ELSE IF price = NULL \/ q = NULL \/ q[1] <= 0 \/ price[1] < 0
        THEN Outcome(tbl, sq,
                 Redirect(Flash("Cena musi byc liczba, ilosc dodatnia.", "error")))
        ELSE IF kind = "sell" /\ dict_get(app_calc_state(tbl).stock, product) < q[1]
        THEN Outcome(tbl, sq, Redirect(Flash("Za malo sztuk w magazynie.", "error")))
        ELSE Outcome(insert(tbl, sq, kind, Some(product), price, q, NULL, NULL),
                     next_id(sq),
                     Redirect(Flash(SavedMessage(kind), "ok")))

\* buy() and sell() of app.py are the same code but for the kind stored and
\* the message flashed.
app_buy_sell(kind, tbl, sq, form) ==
    LET product    == strip(or_text(form.name, <<>>))
        unit_price == form.price
        qty        == form.qty
        price      == py_float(unit_price)
        q          == py_int(qty)
    IN  IF product = <<>> \/ unit_price = <<>> \/ qty = <<>>
        THEN Outcome(tbl, sq,
                 Redirect(Flash("Uzupelnij: nazwa, cena, liczba sztuk.", "error")))
        ELSE IF price = NULL \/ q = NULL \/ q[1] <= 0 \/ price[1] < 0
        THEN Outcome(tbl, sq,
                 Redirect(Flash("Cena musi byc liczba, ilosc dodatnia.", "error")))
        ELSE Outcome(insert(tbl, sq, kind, Some(product), price, q, NULL, NULL),
                     next_id(sq),
                     Redirect(Flash(SavedMessage(kind), "ok")))

app_balance(tbl, sq, form) ==
    LET comment == strip(or_text(form.comment, <<>>))
        value   == form.value
        val     == py_float(value)
    IN  IF value = <<>>
        THEN Outcome(tbl, sq, Redirect(Flash("Podaj wartosc (liczbowa).", "error")))
        ELSE IF val = NULL
        THEN Outcome(tbl, sq, Redirect(Flash("Wartosc musi byc liczba.", "error")))
        ELSE Outcome(insert(tbl, sq, "balance", NULL, NULL, NULL, Some(comment), val),
                     next_id(sq),
                     Redirect(Flash(SavedMessage("balance"), "ok")))

app_index(tbl) == Page(<<>>, NULL, app_calc_state(tbl))

\* Mutant of app_history: the snapshot is projected from the rows of the
\* range only.
app_history_of_range(tbl, line_from, line_to) ==
    IF line_from = NULL \/ line_to = NULL
    THEN Page(order_by_id_desc(tbl), NULL, app_calc_state(tbl))
    ELSE LET lo == IF line_from[1] > line_to[1] THEN line_to[1] ELSE line_from[1]
             hi == IF line_from[1] > line_to[1] THEN line_from[1] ELSE line_to[1]
         IN  Page(order_by_id_desc(between(tbl, lo, hi)), <<lo, hi>>,
                  app_calc_state(between(tbl, lo, hi)))

app_history(tbl, line_from, line_to) ==
    IF line_from = NULL \/ line_to = NULL
    THEN Page(order_by_id_desc(tbl), NULL, app_calc_state(tbl))
    ELSE LET lo == IF line_from[1] > line_to[1] THEN line_to[1] ELSE line_from[1]
             hi == IF line_from[1] > line_to[1] THEN line_from[1] ELSE line_to[1]
         IN  Page(order_by_id_desc(between(tbl, lo, hi)), <<lo, hi>>,
                  app_calc_state(tbl))

\* ---------------------------------------------------- system_accountant.py
\* float(request.form.get(k, "0") or 0) and int(... or 0)
sa_float_or_0(text) == IF text = <<>> THEN Some(0) ELSE py_float(text)

sa_int_or_0(text) == IF text = <<>> THEN Some(0) ELSE py_int(text)

\* The buy and the sell branch of add_event are the same code but for the
\* kind stored and the message flashed.  A ValueError of float() or int()
\* is not caught: it leaves the with block (rollback) and the view.
sa_add_buy_sell(kind, tbl, sq, form) ==
    LET name  == strip(form.name)
        price == sa_float_or_0(form.price)
        qty   == sa_int_or_0(form.qty)
    IN  IF price = NULL \/ qty = NULL
        THEN Outcome(tbl, sq, ServerError)
        ELSE IF name = <<>> \/ qty[1] <= 0
        THEN Outcome(tbl, sq,
                 Redirect(Flash("Podaj nazwe produktu i dodatnia liczbe sztuk.", "error")))
        ELSE Outcome(insert(tbl, sq, kind, Some(name), price, qty, NULL, NULL),
                     next_id(sq),
                     Redirect(Flash(SavedMessage(kind), "ok")))

sa_add_balance(tbl, sq, form) ==
    LET comment == strip(form.comment)
        value   == py_float(form.value)
    IN  IF value = NULL
        THEN Outcome(tbl, sq,
                 Redirect(Flash("Wartosc salda musi byc liczba.", "error")))
        ELSE Outcome(insert(tbl, sq, "balance", NULL, NULL, NULL, Some(comment), value),
                     next_id(sq),
                     Redirect(Flash(SavedMessage("balance"), "ok")))

\* POST /add: one endpoint for the three forms, told apart by form_name.
add_event(tbl, sq, form) ==
    LET kind == form.form_name
    IN  CASE kind \in {"buy", "sell"} -> sa_add_buy_sell(kind, tbl, sq, form)
          [] kind = "balance"         -> sa_add_balance(tbl, sq, form)
          [] OTHER                    -> Outcome(tbl, sq, Redirect(NULL))

\* POST /buy, /sell, /cash of system_accountant.py: flash and redirect only.
StubMessage(route) ==
    CASE route = "/buy"  -> "Zakup zapisany (stub)."
      [] route = "/sell" -> "Sprzedaz zapisana (stub)."
      [] route = "/cash" -> "Zmiana salda zapisana (stub)."

sa_stub(route, tbl, sq) ==
    Outcome(tbl, sq, Redirect(Flash(StubMessage(route), "message")))

sa_index(tbl) == Page(<<>>, NULL, sa_calc_state(tbl))

sa_history(tbl, line_from, line_to) ==
    IF line_from = NULL \/ line_to = NULL
    THEN Page(order_by_id_asc(tbl), NULL, sa_calc_state(tbl))
    ELSE Page(order_by_id_asc(between(tbl, line_from[1], line_to[1])),
              <<line_from[1], line_to[1]>>, sa_calc_state(tbl))

\* ------------------------------------------------------------ form inputs
\* Product names: two products (one typed with blanks around it) and a
\* name of blanks only.
ProductNames == { <<"W">>, <<" ", "G", " ">> }

BlankNames == { <<" ">> }

\* Prices: a plain one, a non-number and a negative one.
PlainPrices == { <<"2">> }

OddPrices == { <<"x">>, <<"-", "1">> }

\* Quantities: a plain one, an empty field, a non-number and zero.
PlainQtys == { <<"2">> }

OddQtys == { <<>>, <<"x">>, <<"0">> }

\* The (name, price, quantity) fields of a Buy or Sell form: all plain, or
\* plain but for one field.
BuySellFields ==
    (ProductNames \X PlainPrices \X PlainQtys)
        \cup (BlankNames \X PlainPrices \X PlainQtys)
        \cup (ProductNames \X OddPrices \X PlainQtys)
        \cup (ProductNames \X PlainPrices \X OddQtys)

Values == { <<>>, <<"x">>, <<"-", "3", ".", "5">>, <<"0", ".", "1", "2", "5">> }

Comments == { <<" ", "f", "e", "e">> }

\* <int:line_from>/<int:line_to> accepts non-negative integers.
Lines == 0..MaxLine

\* A request being handled step by step: where its handler stands, the
\* connection get_db() gave it, the rows it has inserted, the answer it is
\* about to give and, for history, the rows its first SELECT returned.
Procs == 1..NProcs

IdleProc ==
    [pc |-> "idle", req |-> Request("", NoForm, NULL, NULL), conn |-> "none",
     pending |-> {}, newseq |-> 0, resp |-> Redirect(NULL), rows |-> <<>>]

\* ----------------------------------------------------------------- actions
Init ==
    /\ entry \in {"app", "system_accountant"}
    /\ table = {}
    /\ seq = 0
    /\ req = Request("", NoForm, NULL, NULL)
    /\ resp = Redirect(NULL)
    /\ now = 0
    /\ proc = [p \in Procs |-> IdleProc]
    /\ lock = 0

\* The request is served: its outcome becomes the state.
Serve(request, out) ==
    /\ Cardinality(out.table) <= MaxEvents
    /\ req' = request
    /\ table' = out.table
    /\ seq' = out.seq
    /\ resp' = out.resp
    /\ UNCHANGED <<entry, now, proc, lock>>

AppBuy ==
    /\ entry = "app"
    /\ \E f \in BuySellFields :
         LET form == Form("", f[1], f[2], f[3], <<>>, <<>>)
         IN  Serve(Request("/buy", form, NULL, NULL),
                   app_buy_sell("buy", table, seq, form))

AppSell ==
    /\ entry = "app"
    /\ \E f \in BuySellFields :
         LET form == Form("", f[1], f[2], f[3], <<>>, <<>>)
         IN  Serve(Request("/sell", form, NULL, NULL),
                   app_buy_sell("sell", table, seq, form))

AppBalance ==
    /\ entry = "app"
    /\ \E c \in Comments, v \in Values :
         LET form == Form("", <<>>, <<>>, <<>>, c, v)
         IN  Serve(Request("/balance", form, NULL, NULL),
                   app_balance(table, seq, form))

AppIndex ==
    /\ entry = "app"
    /\ Serve(Request("/", NoForm, NULL, NULL),
             Outcome(table, seq, app_index(table)))

\* Mutant of AppHistory: a history with a range keeps only the rows of the
\* range in the table.
AppHistory_purging ==
    /\ entry = "app"
    /\ \/ Serve(Request("/history/", NoForm, NULL, NULL),
                Outcome(table, seq, app_history(table, NULL, NULL)))
       \/ \E a \in Lines, b \in Lines :
            Serve(Request("/history/", NoForm, Some(a), Some(b)),
                  Outcome(between(table, a, b), seq,
                          app_history(table, Some(a), Some(b))))

AppHistory ==
    /\ entry = "app"
    /\ \/ Serve(Request("/history/", NoForm, NULL, NULL),
                Outcome(table, seq, app_history(table, NULL, NULL)))
       \/ \E a \in Lines, b \in Lines :
            Serve(Request("/history/", NoForm, Some(a), Some(b)),
                  Outcome(table, seq, app_history(table, Some(a), Some(b))))

SaAddBuySell ==
    /\ entry = "system_accountant"
    /\ \E k \in {"buy", "sell"}, f \in BuySellFields :
         LET form == Form(k, f[1], f[2], f[3], <<>>, <<>>)
         IN  Serve(Request("/add", form, NULL, NULL), add_event(table, seq, form))

SaAddBalance ==
    /\ entry = "system_accountant"
    /\ \E c \in Comments, v \in Values :
         LET form == Form("balance", <<>>, <<>>, <<>>, c, v)
         IN  Serve(Request("/add", form, NULL, NULL), add_event(table, seq, form))

\* A POST to /add whose form_name is none of the three.
SaAddOther ==
    /\ entry = "system_accountant"
    /\ Serve(Request("/add", NoForm, NULL, NULL), add_event(table, seq, NoForm))

SaStub ==
    /\ entry = "system_accountant"
    /\ \E route \in {"/buy", "/sell", "/cash"} :
         Serve(Request(route, NoForm, NULL, NULL), sa_stub(route, table, seq))

SaIndex ==
    /\ entry = "system_accountant"
    /\ Serve(Request("/", NoForm, NULL, NULL),
             Outcome(table, seq, sa_index(table)))

SaHistory ==
    /\ entry = "system_accountant"
    /\ \/ Serve(Request("/history/", NoForm, NULL, NULL),
                Outcome(table, seq, sa_history(table, NULL, NULL)))
       \/ \E a \in Lines, b \in Lines :
            Serve(Request("/history/", NoForm, Some(a), Some(b)),
                  Outcome(table, seq, sa_history(table, Some(a), Some(b))))

Next ==
    \/ AppBuy \/ AppSell \/ AppBalance \/ AppIndex \/ AppHistory
    \/ SaAddBuySell \/ SaAddBalance \/ SaAddOther \/ SaStub
    \/ SaIndex \/ SaHistory

Spec == Init /\ [][Next]_vars

\* ------------------------------------------ requests handled concurrently
\* Flask serves each request on a thread of its own, each with its own
\* SQLite connection.  A handler is followed statement by statement:
\* get_db(), the SELECTs or the INSERT, the commit, the return.  SQLite lets
\* one connection write at a time: an INSERT waits while another connection
\* holds the write lock, which is held from the INSERT to the commit that
\* follows it at once, far below the 5 s busy timeout of sqlite3.connect.
\* Rows inserted and not yet committed are seen by no other connection.
Handle(request, tbl, sq) ==
    LET route == request.route
        form  == request.form
    IN  IF entry = "app"
        THEN CASE route = "/buy"      -> app_buy_sell("buy", tbl, sq, form)
               [] route = "/sell"     -> app_buy_sell("sell", tbl, sq, form)
               [] route = "/balance"  -> app_balance(tbl, sq, form)
               [] route = "/"         -> Outcome(tbl, sq, app_index(tbl))
               [] route = "/history/" ->
                    Outcome(tbl, sq,
                        app_history(tbl, request.line_from, request.line_to))
        ELSE CASE route = "/add"      -> add_event(tbl, sq, form)
               [] route = "/"         -> Outcome(tbl, sq, sa_index(tbl))
               [] route = "/history/" ->
                    Outcome(tbl, sq,
                        sa_history(tbl, request.line_from, request.line_to))
               [] OTHER               -> sa_stub(route, tbl, sq)

\* The handler reaches get_db(): index, history and add_event always do, the
\* submit routes of app.py only past their validation, the stubs never.
opens_db(request) ==
    \/ request.route \in {"/", "/history/", "/add"}
    \/ /\ entry = "app"
       /\ Handle(request, table, seq).resp.flash # NULL
       /\ Handle(request, table, seq).resp.flash[1].category = "ok"

\* Mutant of write_lock_free: the INSERT does not wait for the write lock.
write_lock_ignored(lk) == TRUE

\* No other connection holds the write lock.
write_lock_free(lk) == lk = 0

ConcForms(k) ==
    { Form(k, <<"W">>, <<"2">>, <<"2">>, <<>>, <<>>),
      Form(k, <<" ">>, <<"2">>, <<"2">>, <<>>, <<>>),
      Form(k, <<"W">>, <<"x">>, <<"2">>, <<>>, <<>>) }

ConcRequests ==
    IF entry = "app"
    THEN {Request("/buy", f, NULL, NULL) : f \in ConcForms("")}
           \cup {Request("/sell", Form("", <<"W">>, <<"2">>, <<"2">>, <<>>, <<>>),
                          NULL, NULL),
                 Request("/", NoForm, NULL, NULL),
                 Request("/history/", NoForm, NULL, NULL)}
    ELSE {Request("/add", f, NULL, NULL) : f \in ConcForms("buy")}
           \cup {Request("/add", Form("sell", <<"W">>, <<"2">>, <<"2">>, <<>>, <<>>),
                          NULL, NULL),
                 Request("/buy", NoForm, NULL, NULL),
                 Request("/", NoForm, NULL, NULL),
                 Request("/history/", NoForm, NULL, NULL)}

\* A request arrives and its handler is called.
ConcCall(p) ==
    /\ proc[p].pc = "idle"
    /\ \E r \in ConcRequests :
         proc' = [proc EXCEPT ![p].pc = "called", ![p].req = r]
    /\ UNCHANGED <<entry, table, seq, req, resp, now, lock>>

\* The handler answers without a connection.
ConcAnswer(p) ==
    /\ proc[p].pc = "called"
    /\ ~opens_db(proc[p].req)
    /\ proc' = [proc EXCEPT ![p].pc = "executed",
                            ![p].resp = Handle(proc[p].req, table, seq).resp]
    /\ UNCHANGED <<entry, table, seq, req, resp, now, lock>>

\* get_db()
ConcConnect(p) ==
    /\ proc[p].pc = "called"
    /\ opens_db(proc[p].req)
    /\ proc' = [proc EXCEPT ![p].pc = "connected", ![p].conn = "open"]
    /\ UNCHANGED <<entry, table, seq, req, resp, now, lock>>

\* history: the SELECT of the rows, ahead of calc_state's own SELECT.
ConcSelectRows(p) ==
    /\ proc[p].pc = "connected"
    /\ proc[p].req.route = "/history/"
    /\ proc' = [proc EXCEPT ![p].pc = "selected",
                            ![p].rows = Handle(proc[p].req, table, seq).resp.rows]
    /\ UNCHANGED <<entry, table, seq, req, resp, now, lock>>

\* The body of the with block: calc_state, or the parsing, the validation
\* and the INSERT, which takes the write lock and is not yet committed.
ConcExecute(p) ==
    /\ \/ proc[p].pc = "connected" /\ proc[p].req.route # "/history/"
       \/ proc[p].pc = "selected"
    /\ LET out == Handle(proc[p].req, table, seq)
       IN  IF out.table # table
           THEN /\ write_lock_free(lock)
                /\ lock' = p
                /\ proc' = [proc EXCEPT ![p].pc = "written",
                                        ![p].pending = out.table \ table,
                                        ![p].newseq = out.seq,
                                        ![p].resp = out.resp]
           ELSE /\ lock' = lock
                /\ proc' = [proc EXCEPT
                             ![p].pc = "executed",
                             ![p].resp =
                                 IF proc[p].pc = "selected" /\ out.resp.status = 200
                                 THEN [out.resp EXCEPT !.rows = proc[p].rows]
                                 ELSE out.resp]
    /\ UNCHANGED <<entry, table, seq, req, resp, now>>

\* db.commit() / leaving the with block: the inserted row is committed and
\* the write lock released.
ConcCommit(p) ==
    /\ proc[p].pc = "written"
    /\ table' = table \cup proc[p].pending
    /\ seq' = proc[p].newseq
    /\ lock' = 0
    /\ proc' = [proc EXCEPT ![p].pc = "executed"]
    /\ UNCHANGED <<entry, req, resp, now>>

\* The handler returns or its exception leaves it.  No handler calls
\* close(), and leaving  with get_db() as db  commits or rolls back without
\* closing: the connection is closed when its object is finalized, which
\* may be at once or later.
ConcReturn(p) ==
    /\ proc[p].pc = "executed"
    /\ \E c \in (IF proc[p].conn = "open" THEN {"open", "closed"}
                  ELSE {proc[p].conn}) :
         proc' = [proc EXCEPT ![p].pc = "done", ![p].conn = c]
    /\ UNCHANGED <<entry, table, seq, req, resp, now, lock>>

\* The connection object of a finished request is finalized.
ConcFinalize(p) ==
    /\ proc[p].pc = "done"
    /\ proc[p].conn = "open"
    /\ proc' = [proc EXCEPT ![p].conn = "closed"]
    /\ UNCHANGED <<entry, table, seq, req, resp, now, lock>>

\* A second passes.
Tick ==
    /\ now < MaxTick
    /\ now' = now + 1
    /\ UNCHANGED <<entry, table, seq, req, resp, proc, lock>>

NextConc ==
    \/ \E p \in Procs :
         \/ ConcCall(p) \/ ConcAnswer(p) \/ ConcConnect(p) \/ ConcSelectRows(p)
         \/ ConcExecute(p) \/ ConcCommit(p) \/ ConcReturn(p) \/ ConcFinalize(p)
    \/ Tick

SpecConc == Init /\ [][NextConc]_vars

\* ------------------------------------------------- a table found on disk
\* init_db is CREATE TABLE IF NOT EXISTS: the programs also run over a table
\* that was filled by other means, whose numeric columns may hold NULL or
\* TEXT.  The pages are then served over such a table.
LegacyQtys == { NULL, Some(2), Text(<<"x">>), Text(<<>>) }

LegacyPrices == { NULL, Some(2 * Mills), Text(<<"x">>) }

LegacyValues == { NULL, Some(0 - 3500), Text(<<"x">>) }

LegacyRows(id) ==
    {Row(id, 0, "buy", Some(<<"W">>), p, q, NULL, NULL) :
         p \in LegacyPrices, q \in LegacyQtys}
      \cup {Row(id, 0, "sell", Some(<<"W">>), Some(2 * Mills), Some(2), NULL, NULL)}
      \cup {Row(id, 0, "balance", NULL, NULL, NULL, Some(<<>>), v) :
               v \in LegacyValues}

RECURSIVE LegacyTables(_)
LegacyTables(n) ==
    IF n = 0 THEN {{}}
    ELSE LegacyTables(n - 1)
           \cup {t \cup {r} : t \in {u \in LegacyTables(n - 1) : Cardinality(u) = n - 1},
                              r \in LegacyRows(n)}

InitLegacy ==
    /\ entry \in {"app", "system_accountant"}
    /\ table \in LegacyTables(MaxLegacy)
    /\ seq = Cardinality(table)
    /\ req = Request("", NoForm, NULL, NULL)
    /\ resp = Redirect(NULL)
    /\ now = 0
    /\ proc = [p \in Procs |-> IdleProc]
    /\ lock = 0

NextLegacy == AppIndex \/ AppHistory \/ SaIndex \/ SaHistory

SpecLegacy == InitLegacy /\ [][NextLegacy]_vars

\* =================================================================== claims
\* ------------------------------------------------- vocabulary of the claims
\* The program that is running serves the request.
CurrentState(tbl) ==
    IF entry = "app" THEN app_calc_state(tbl) ELSE sa_calc_state(tbl)

HistoryOf(tbl, line_from, line_to) ==
    IF entry = "app" THEN app_history(tbl, line_from, line_to)
    ELSE sa_history(tbl, line_from, line_to)

Snapshot(page) == <<page.stock, page.cash>>

IsIndexPage == req.route = "/" /\ resp.status = 200

IsHistoryPage == req.route = "/history/" /\ resp.status = 200

\* A request that submits a Buy or Sell form through buy/sell of app.py or
\* add_event of system_accountant.py.
IsBuySellSubmit(r) ==
    \/ entry = "app" /\ r.route \in {"/buy", "/sell"}
    \/ entry = "system_accountant" /\ r.route = "/add"
         /\ r.form.form_name \in {"buy", "sell"}

IsBalanceSubmit(r) ==
    \/ entry = "app" /\ r.route = "/balance"
    \/ entry = "system_accountant" /\ r.route = "/add"
         /\ r.form.form_name = "balance"

\* Every route that takes a submitted form.
IsSubmit(r) == r.route \in {"/buy", "/sell", "/balance", "/cash", "/add"}

ReportsSuccess(answer) ==
    answer.flash # NULL /\ answer.flash[1].category # "error"

RejectsWithReason(answer) ==
    answer.status = 302 /\ answer.flash # NULL /\ answer.flash[1].category = "error"

\* The payload is invalid by the data model: empty product after trimming,
\* quantity <= 0, or unit price < 0.
InvalidPayload(form) ==
    \/ strip(form.name) = <<>>
    \/ py_int(form.qty) # NULL /\ py_int(form.qty)[1] <= 0
    \/ py_float(form.price) # NULL /\ py_float(form.price)[1] < 0

\* The ledger, summed row by row in no particular order.
BuySellRows(tbl) == {r \in tbl : r.kind \in {"buy", "sell"}}

Products(tbl) == {r.product[1] : r \in BuySellRows(tbl)}

QtyOf(r, p) ==
    CASE r.kind = "buy" /\ r.product = Some(p)  -> r.qty[1]
      [] r.kind = "sell" /\ r.product = Some(p) -> 0 - r.qty[1]
      [] OTHER -> 0

CashOf(r) ==
    CASE r.kind = "buy"     -> 0 - r.unit_price[1] * r.qty[1]
      [] r.kind = "sell"    -> r.unit_price[1] * r.qty[1]
      [] r.kind = "balance" -> r.value[1]

RECURSIVE NetQty(_, _)
NetQty(rows, p) ==
    IF rows = {} THEN 0
    ELSE LET r == CHOOSE x \in rows : TRUE
         IN  QtyOf(r, p) + NetQty(rows \ {r}, p)

RECURSIVE NetCash(_)
NetCash(rows) ==
    IF rows = {} THEN 0
    ELSE LET r == CHOOSE x \in rows : TRUE
         IN  CashOf(r) + NetCash(rows \ {r})

\* Every stored price and value is a whole number of hundredths.
WholeCents(tbl) ==
    \A r \in tbl : /\ r.unit_price # NULL => r.unit_price[1] % 10 = 0
                   /\ r.value # NULL => r.value[1] % 10 = 0

\* ----------------------------------------------------------------------- C1
\* C1: a Buy or Sell submission whose product is empty after trimming, whose
\* quantity is <= 0 or whose unit price is < 0 is rejected: it reports no
\* success, stores no event, and current_state() is the same after it as
\* before it.
C1_InvalidSubmissionRejected ==
    [][ (IsBuySellSubmit(req') /\ InvalidPayload(req'.form))
          => /\ ~ReportsSuccess(resp')
             /\ table' = table
             /\ CurrentState(table') = CurrentState(table) ]_vars

\* ----------------------------------------------------------------------- C2
\* C2: the snapshot (stock, cash) of a history page, whatever its id range,
\* also one that matches no event, is the snapshot of the history page with
\* no range.
C2_HistorySnapshotInvariance ==
    IsHistoryPage => Snapshot(resp) = Snapshot(HistoryOf(table, NULL, NULL))

\* A history page over a range that matches no event of a store whose
\* snapshot is not the empty one.
C2_Witness ==
    /\ IsHistoryPage /\ req.line_from # NULL
    /\ table # {} /\ resp.rows = <<>>
    /\ resp.stock # <<>> /\ resp.cash # 0

\* ----------------------------------------------------------------------- C3
\* C3: the rows of the history page for the range (a, b) are the rows of
\* the history page for (b, a).
C3_RangeSymmetry ==
    (IsHistoryPage /\ req.line_from # NULL)
        => resp.rows = HistoryOf(table, req.line_to, req.line_from).rows

\* ----------------------------------------------------------------------- C4
\* C4: the history page holds exactly the stored events whose id lies in
\* [min(from, to), max(from, to)], or all of them when no range is given,
\* each once and in ascending id order.
C4_RangeQueryExact ==
    IsHistoryPage =>
        LET a    == req.line_from
            b    == req.line_to
            want == IF a = NULL \/ b = NULL THEN table
                    ELSE {r \in table :
                            /\ (IF a[1] < b[1] THEN a[1] ELSE b[1]) <= r.id
                            /\ r.id <= (IF a[1] < b[1] THEN b[1] ELSE a[1])}
            rows == resp.rows
        IN  /\ {rows[i] : i \in 1..Len(rows)} = want
            /\ \A i \in 1..Len(rows), j \in 1..Len(rows) :
                   i < j => rows[i].id < rows[j].id

\* ----------------------------------------------------------------------- C5
\* C5: current_state() is the ledger summed up: each product's stock is its
\* Buy quantities minus its Sell quantities, and the cash is the Sell
\* amounts minus the Buy amounts plus the Balance values.  app.py hands the
\* cash out rounded to two decimals, which is that very sum whenever the
\* stored prices and values are whole hundredths (integers among them).
C5_StateIsLedgerSum ==
    IsIndexPage =>
        /\ DOMAIN resp.stock \subseteq Products(table)
        /\ \A p \in Products(table) : dict_get(resp.stock, p) = NetQty(table, p)
        /\ entry = "system_accountant" => resp.cash = NetCash(table)
        /\ entry = "app" => resp.cash = round2(NetCash(table))
        /\ WholeCents(table) => resp.cash = NetCash(table)

\* current_state() over a store of whole prices and values that holds both
\* a Buy and a Sell and leaves stock and cash.
C5_Witness ==
    /\ IsIndexPage /\ WholeCents(table)
    /\ \E r \in table : r.kind = "buy"
    /\ \E r \in table : r.kind = "sell"
    /\ resp.stock # <<>> /\ resp.cash # 0

\* ----------------------------------------------------------------------- C6
\* C6: in the snapshot of every index and history page, a product is in the
\* stock mapping exactly when its Buy and Sell quantities do not net to
\* zero, so no entry of the mapping is 0.
C6_NetZeroElision ==
    (IsIndexPage \/ IsHistoryPage) =>
        /\ \A p \in DOMAIN resp.stock : resp.stock[p] # 0
        /\ \A p \in Products(table) :
               p \in DOMAIN resp.stock <=> NetQty(table, p) # 0

\* A page over a store in which a product was bought and sold down to zero
\* and is absent from the stock mapping.
C6_Witness ==
    /\ IsIndexPage \/ IsHistoryPage
    /\ \E p \in Products(table) :
         NetQty(table, p) = 0 /\ p \notin DOMAIN resp.stock

\* ----------------------------------------------------------------------- C7
\* C7: no request alters or removes a stored event: the store before a step,
\* in id order, is a prefix of the store after it.
C7_AppendOnly ==
    [][ LET old == order_by_id_asc(table)
            new == order_by_id_asc(table')
        IN  /\ table \subseteq table'
            /\ Len(old) <= Len(new)
            /\ SubSeq(new, 1, Len(old)) = old ]_vars

\* A rejected submission and a read, each served over a store of two events.
C7_Witness ==
    /\ Cardinality(table) = 2
    /\ \/ IsSubmit(req) /\ RejectsWithReason(resp)
       \/ IsHistoryPage /\ req.line_from # NULL

\* ----------------------------------------------------------------------- C8
\* C8: every submit request ends in exactly one of two ways: one event is
\* stored and success is reported, or the submission is rejected with a
\* reason and the store is unchanged.
C8_StoredOrRejected ==
    [][ IsSubmit(req') =>
          \/ /\ ReportsSuccess(resp')
             /\ table \subseteq table'
             /\ Cardinality(table') = Cardinality(table) + 1
          \/ /\ RejectsWithReason(resp')
             /\ table' = table ]_vars

\* ----------------------------------------------------------------------- C9
\* C9: a submission whose price or quantity (Buy, Sell) or value (Balance)
\* does not parse as a number is rejected with a reason and stores nothing;
\* it does not end as an exception that leaves the handler.
C9_UnparseableRejected ==
    [][ (\/ /\ IsBuySellSubmit(req')
            /\ py_float(req'.form.price) = NULL \/ py_int(req'.form.qty) = NULL
         \/ /\ IsBalanceSubmit(req')
            /\ py_float(req'.form.value) = NULL)
          => /\ RejectsWithReason(resp')
             /\ table' = table ]_vars

\* ---------------------------------------------------------------------- C10
\* C10: no two stored events share an id, and every event that is stored
\* gets an id greater than the id of every event stored before it.
C10_IdsUniqueIncreasing ==
    /\ [](\A r \in table, s \in table : r.id = s.id => r = s)
    /\ [][ \A r \in table' \ table : \A s \in table : r.id > s.id ]_vars

\* Two events stored one after the other.
C10_Witness == Cardinality(table) = 2 /\ Ids(table) = {1, 2}

\* ---------------------------------------------------------------------- C11
\* The timestamps a row can carry, and a store holding the same events as
\* tbl with the timestamps of f.
Timestamps == 0..MaxTick

Restamp(tbl, f) == {[r EXCEPT !.ts = f[r.id]] : r \in tbl}

\* C11: the snapshot of current_state() depends on the kinds and payloads
\* of the stored events and their ids only: every store that holds the same
\* events under other timestamps has the very same snapshot (whenever and
\* however often current_state() is called on it).
C11_ProjectionDeterminism ==
    IsIndexPage =>
        \A f \in [Ids(table) -> Timestamps] :
            Snapshot(resp) = Snapshot(CurrentState(Restamp(table, f)))

\* current_state() over two events that leave stock and cash, for which
\* there is a store with the same events at two different times.
C11_Witness ==
    /\ IsIndexPage /\ Cardinality(table) = 2
    /\ resp.stock # <<>> /\ resp.cash # 0
    /\ \E f \in [Ids(table) -> Timestamps] :
         \E r \in Restamp(table, f), q \in Restamp(table, f) : r.ts # q.ts

\* ---------------------------------------------------------------------- C12
\* A numeric cell read leniently: the number it holds, or zero.
NumberOrZero(x) == IF x # NULL /\ ~is_text(x) THEN x[1] ELSE 0

LenientQtyOf(r) ==
    CASE r.kind = "buy"  -> NumberOrZero(r.qty)
      [] r.kind = "sell" -> 0 - NumberOrZero(r.qty)
      [] OTHER -> 0

LenientCashOf(r) ==
    CASE r.kind = "buy"     -> 0 - NumberOrZero(r.unit_price) * NumberOrZero(r.qty)
      [] r.kind = "sell"    -> NumberOrZero(r.unit_price) * NumberOrZero(r.qty)
      [] r.kind = "balance" -> NumberOrZero(r.value)

RECURSIVE LenientQty(_, _)
LenientQty(rows, p) ==
    IF rows = {} THEN 0
    ELSE LET r == CHOOSE x \in rows : TRUE
         IN  (IF r.product = Some(p) THEN LenientQtyOf(r) ELSE 0)
               + LenientQty(rows \ {r}, p)

RECURSIVE LenientCash(_)
LenientCash(rows) ==
    IF rows = {} THEN 0
    ELSE LET r == CHOOSE x \in rows : TRUE
         IN  LenientCashOf(r) + LenientCash(rows \ {r})

\* C12: over any stored rows, also rows whose qty, unit_price or value is
\* null or malformed, current_state() returns a snapshot and does not fail,
\* and such a field counts as zero in stock and cash.
C12_ProjectionTotal ==
    req.route = "/" =>
        /\ resp.status = 200
        /\ \A p \in Products(table) :
               dict_get(resp.stock, p) = LenientQty(table, p)
        /\ resp.cash = IF entry = "app" THEN round2(LenientCash(table))
                       ELSE LenientCash(table)

\* ---------------------------------------------------------------------- C13
\* C13: every stored event is of kind buy, sell or balance; a buy or sell
\* event has a non-empty product, a unit_price >= 0 and a qty > 0, and its
\* comment and value are null; a balance event has a numeric value, and its
\* product, unit_price and qty are null.
C13_KindPayloadInvariant ==
    \A r \in table :
        /\ r.kind \in {"buy", "sell", "balance"}
        /\ r.kind \in {"buy", "sell"} =>
             /\ r.product # NULL /\ r.product[1] # <<>>
             /\ r.unit_price # NULL /\ ~is_text(r.unit_price) /\ r.unit_price[1] >= 0
             /\ r.qty # NULL /\ ~is_text(r.qty) /\ r.qty[1] > 0
             /\ r.comment = NULL /\ r.value = NULL
        /\ r.kind = "balance" =>
             /\ r.value # NULL /\ ~is_text(r.value)
             /\ r.product = NULL /\ r.unit_price = NULL /\ r.qty = NULL

\* A submission the handler stores, whatever the table holds.
IsValidSubmission(request) == Handle(request, {}, 0).table # {}

\* The request of process p has inserted its row and committed it.
Committed(p) ==
    proc[p].pc \in {"executed", "done"} /\ proc[p].pending # {}

\* C14: appends are atomic and serialized under concurrency.  However the
\* steps of concurrent requests interleave, the committed rows have distinct
\* ids, every committed submission has exactly its one complete row in the
\* table and the table holds nothing else, a row inserted and not yet
\* committed is in the table of no reader, every row a reader was shown is a
\* committed row, and once all requests are done the table holds one row per
\* valid submission.
C14_AppendsAtomicSerialized ==
    /\ \A r, s \in table : r.id = s.id => r = s
    /\ \A p \in Procs : Committed(p) =>
          /\ Cardinality(proc[p].pending) = 1
          /\ proc[p].pending \subseteq table
          /\ ReportsSuccess(proc[p].resp)
    /\ Cardinality(table) = Cardinality({p \in Procs : Committed(p)})
    /\ \A p \in Procs : proc[p].pc = "written" =>
          proc[p].pending \cap table = {}
    /\ \A p \in Procs :
          /\ \A i \in DOMAIN proc[p].rows : proc[p].rows[i] \in table
          /\ (proc[p].pc \in {"executed", "done"} /\ proc[p].resp.status = 200)
                => \A i \in DOMAIN proc[p].resp.rows :
                      proc[p].resp.rows[i] \in table
    /\ (\A p \in Procs : proc[p].pc = "done") =>
          Cardinality(table) =
              Cardinality({p \in Procs : IsValidSubmission(proc[p].req)})

\* One submission holds the write lock with its row not yet committed
\* while another valid submission has connected and waits for the lock.
C14_Witness ==
    \E p, q \in Procs :
        /\ p # q
        /\ proc[p].pc = "written" /\ lock = p
        /\ proc[q].pc = "connected" /\ IsValidSubmission(proc[q].req)

\* C15: every request releases its database connection.  Once a request is
\* done, by return or by exception, the connection it opened is closed.
C15_ConnectionReleased ==
    \A p \in Procs : proc[p].pc = "done" => proc[p].conn # "open"

\* ---------------------------------------------------------------------- C16
\* C16: read requests leave the store unchanged.  A step that serves the
\* index page or the history page, with or without a range, leaves the
\* table and its id counter as they were.
C16_ReadsLeaveStoreUnchanged ==
    [][req'.route \in {"/", "/history/"} => table' = table /\ seq' = seq]_vars

\* A history page that shows rows of a store that holds rows.
C16_Witness ==
    /\ IsHistoryPage /\ table # {}
    /\ resp.rows # <<>> /\ \A i \in DOMAIN resp.rows : resp.rows[i] \in table

\* ---------------------------------------------------------------------- C17
\* A Sell submission through sell of app.py or add_event of
\* system_accountant.py, with a payload that is valid by the data model.
IsValidSell(r) ==
    /\ \/ entry = "app" /\ r.route = "/sell"
       \/ entry = "system_accountant" /\ r.route = "/add"
            /\ r.form.form_name = "sell"
    /\ py_int(r.form.qty) # NULL /\ py_float(r.form.price) # NULL
    /\ ~InvalidPayload(r.form)

\* A valid Sell of q pieces of p, of which the store holds fewer, is stored
\* with success reported, and calc_state over the store then has p at its
\* negative net quantity.
OversellStored ==
    LET p == strip(req'.form.name)
        q == py_int(req'.form.qty)[1]
    IN  (IsValidSell(req') /\ NetQty(table, p) < q) =>
            /\ \E r \in table' \ table :
                  /\ table' = table \cup {r}
                  /\ r.kind = "sell" /\ r.product = Some(p) /\ r.qty = Some(q)
            /\ ReportsSuccess(resp')
            /\ p \in DOMAIN CurrentState(table').stock
            /\ CurrentState(table').stock[p] = NetQty(table, p) - q
            /\ CurrentState(table').stock[p] < 0

\* Every page shows a product of negative net quantity at that quantity.
NegativeShown ==
    (IsIndexPage \/ IsHistoryPage) =>
        \A p \in Products(table) :
            NetQty(table, p) < 0 =>
                p \in DOMAIN resp.stock /\ resp.stock[p] = NetQty(table, p)

\* C17: a Sell submission is never rejected for insufficient stock.  A valid
\* Sell of more than the net quantity of its product (a product never
\* bought included) is stored, and the snapshot then shows the product with
\* its negative quantity, neither elided nor clamped to zero.
C17_SellNeverRejectedForStock == [][OversellStored]_vars /\ []NegativeShown

\* The index page shows a product at a negative quantity.
C17_Witness ==
    /\ IsIndexPage
    /\ \E p \in DOMAIN resp.stock : resp.stock[p] < 0

====
